---- MODULE Spec2Model ----
(***************************************************************************)
(* A model of md_scrape.py: the crawl engine (scrape_crawl), its frontier  *)
(* store (save_bfs_state / load_bfs_state), the path mapper                *)
(* (url_to_filename) and the link rewriter (rewrite_local_links).          *)
(*                                                                         *)
(* URLs, hrefs and paths are TLA+ strings; the string functions of the     *)
(* Python library that the program calls (urlparse, urljoin, str.strip,    *)
(* str.split, os.path.join, os.path.relpath, ...) are operators computed   *)
(* character by character, as the library computes them.                   *)
(***************************************************************************)
EXTENDS Integers, Sequences, FiniteSets, TLC

(***************************************************************************)
(* Python str primitives                                                   *)
(***************************************************************************)

\* s[i-1] of Python: the i-th character (1-based) as a one-character string
Char(s, i) == SubSeq(s, i, i)

\* s[n:] of Python (n is 0-based: the first n characters are dropped)
StrFrom(s, n) == IF n >= Len(s) THEN "" ELSE SubSeq(s, n + 1, Len(s))

\* s[:n] of Python
StrTo(s, n) == IF n <= 0 THEN "" ELSE IF n >= Len(s) THEN s ELSE SubSeq(s, 1, n)

\* s.startswith(p)
StartsWith(s, p) == Len(p) <= Len(s) /\ SubSeq(s, 1, Len(p)) = p

\* s.find(sub): the 1-based index of the first occurrence, 0 when there is none
StrFind(s, sub) ==
    LET hits == {i \in 1..(Len(s) - Len(sub) + 1) : SubSeq(s, i, i + Len(sub) - 1) = sub}
    IN  IF hits = {} THEN 0 ELSE CHOOSE i \in hits : \A j \in hits : i <= j

\* `sub in s` of Python
StrContains(sub, s) == \E i \in 1..(Len(s) - Len(sub) + 1) : SubSeq(s, i, i + Len(sub) - 1) = sub

\* the first index of s holding a character of the set cs, 0 when there is none
FindAny(s, cs) ==
    LET hits == {i \in 1..Len(s) : Char(s, i) \in cs}
    IN  IF hits = {} THEN 0 ELSE CHOOSE i \in hits : \A j \in hits : i <= j

\* s.rstrip(chars)
RECURSIVE RStrip(_, _)
RStrip(s, cs) ==
    IF Len(s) > 0 /\ Char(s, Len(s)) \in cs THEN RStrip(StrTo(s, Len(s) - 1), cs) ELSE s

\* s.lstrip(chars)
RECURSIVE LStrip(_, _)
LStrip(s, cs) ==
    IF Len(s) > 0 /\ Char(s, 1) \in cs THEN LStrip(StrFrom(s, 1), cs) ELSE s

\* s.strip(chars)
Strip(s, cs) == LStrip(RStrip(s, cs), cs)

\* the characters str.strip() removes when called without an argument
Whitespace == {" ", "\n", "\t", "\r"}

\* s.split(sep) for a one-character sep: always at least one part
RECURSIVE Split(_, _)
Split(s, sep) ==
    LET i == StrFind(s, sep)
    IN  IF i = 0 THEN <<s>> ELSE <<StrTo(s, i - 1)>> \o Split(StrFrom(s, i), sep)

\* sep.join(parts)
RECURSIVE Join(_, _)
Join(parts, sep) ==
    IF Len(parts) = 0 THEN ""
    ELSE IF Len(parts) = 1 THEN parts[1]
    ELSE parts[1] \o sep \o Join(Tail(parts), sep)

\* the sequence q without its empty strings: filter(None, q)
RECURSIVE FilterEmpty(_)
FilterEmpty(q) ==
    IF Len(q) = 0 THEN <<>>
    ELSE IF q[1] = "" THEN FilterEmpty(Tail(q))
    ELSE <<q[1]>> \o FilterEmpty(Tail(q))

(***************************************************************************)
(* urllib.parse                                                            *)
(***************************************************************************)

Letters ==
    {"a", "b", "c", "d", "e", "f", "g", "h", "i", "j", "k", "l", "m",
     "n", "o", "p", "q", "r", "s", "t", "u", "v", "w", "x", "y", "z"}

\* urllib.parse.scheme_chars, on the lower-case alphabet of the model
SchemeChars == Letters \cup {"0", "1", "2", "3", "4", "5", "6", "7", "8", "9", "+", "-", "."}

\* urllib.parse.uses_relative and uses_netloc, restricted to the schemes of the model
UsesRelative == {"", "http", "https", "ftp", "file"}
UsesNetloc == {"", "http", "https", "ftp", "file"}

\* urlsplit, last step: '?' splits the query from the path
ParseQuery(scheme, netloc, fragment, rest) ==
    LET q == StrFind(rest, "?")
    IN  [scheme |-> scheme, netloc |-> netloc,
         path |-> IF q = 0 THEN rest ELSE StrTo(rest, q - 1),
         query |-> IF q = 0 THEN "" ELSE StrFrom(rest, q),
         fragment |-> fragment]

\* urlsplit, third step: '#' splits the fragment off
ParseFragment(scheme, netloc, rest) ==
    LET h == StrFind(rest, "#")
    IN  ParseQuery(scheme, netloc,
                   IF h = 0 THEN "" ELSE StrFrom(rest, h),
                   IF h = 0 THEN rest ELSE StrTo(rest, h - 1))

\* urlsplit, second step: after '//' the netloc runs up to the first of '/?#'
ParseNetloc(scheme, rest) ==
    LET d == FindAny(StrFrom(rest, 2), {"/", "?", "#"})
    IN  IF StrTo(rest, 2) # "//" THEN ParseFragment(scheme, "", rest)
        ELSE IF d = 0 THEN ParseFragment(scheme, StrFrom(rest, 2), "")
        ELSE ParseFragment(scheme, SubSeq(rest, 3, d + 1), StrFrom(rest, d + 1))

\* urlsplit, first step: the scheme is what precedes the first ':', when it
\* starts with a letter and holds scheme characters only
ParseScheme(url, default) ==
    LET i == StrFind(url, ":")
    IN  IF i > 1 /\ Char(url, 1) \in Letters /\ \A k \in 1..(i - 1) : Char(url, k) \in SchemeChars
        THEN ParseNetloc(StrTo(url, i - 1), StrFrom(url, i))
        ELSE ParseNetloc(default, url)

\* urlparse(url, scheme=default): scheme, netloc, path, query, fragment.
\* (No URL of the model holds ';', so params is always empty and left out.)
UrlParseDefault(url, default) == ParseScheme(LStrip(url, Whitespace), default)

\* urlparse(url)
urlparse(url) == UrlParseDefault(url, "")

\* urlunparse((scheme, netloc, path, '', query, fragment))
urlunparse(p) ==
    LET u1 == IF p.netloc # "" \/ (p.scheme # "" /\ p.scheme \in UsesNetloc /\ StrTo(p.path, 2) # "//")
              THEN "//" \o p.netloc \o
                   (IF p.path # "" /\ Char(p.path, 1) # "/" THEN "/" \o p.path ELSE p.path)
              ELSE p.path
        u2 == IF p.scheme # "" THEN p.scheme \o ":" \o u1 ELSE u1
        u3 == IF p.query # "" THEN u2 \o "?" \o p.query ELSE u2
    IN  IF p.fragment # "" THEN u3 \o "#" \o p.fragment ELSE u3

\* the dot-segment loop of urljoin: '..' pops, '.' is skipped
RECURSIVE ResolveSegments(_, _)
ResolveSegments(segments, acc) ==
    IF Len(segments) = 0 THEN acc
    ELSE IF segments[1] = ".."
         THEN ResolveSegments(Tail(segments), IF Len(acc) = 0 THEN acc ELSE SubSeq(acc, 1, Len(acc) - 1))
    ELSE IF segments[1] = "."
         THEN ResolveSegments(Tail(segments), acc)
    ELSE ResolveSegments(Tail(segments), Append(acc, segments[1]))

\* segments[1:-1] = filter(None, segments[1:-1])
FilterInner(q) ==
    IF Len(q) <= 2 THEN q
    ELSE <<q[1]>> \o FilterEmpty(SubSeq(q, 2, Len(q) - 1)) \o <<q[Len(q)]>>

\* base_parts of urljoin: the base path's segments without the last one,
\* unless that is empty
BaseParts(parts) ==
    IF parts[Len(parts)] # "" THEN SubSeq(parts, 1, Len(parts) - 1) ELSE parts

\* the resolved path of urljoin, from the segments of base and reference
ResolvedPath(segments) ==
    LET r == ResolveSegments(segments, <<>>)
    IN  IF segments[Len(segments)] \in {".", ".."} THEN Join(Append(r, ""), "/") ELSE Join(r, "/")

\* urljoin, once base and url are parsed: b and u (u with b's scheme as default)
JoinParsed(b, u, url) ==
    IF u.scheme # b.scheme \/ u.scheme \notin UsesRelative THEN url
    ELSE IF u.scheme \in UsesNetloc /\ u.netloc # "" THEN urlunparse(u)
    ELSE IF u.path = ""
         THEN urlunparse([scheme |-> u.scheme,
                          netloc |-> IF u.scheme \in UsesNetloc THEN b.netloc ELSE u.netloc,
                          path |-> b.path,
                          query |-> IF u.query = "" THEN b.query ELSE u.query,
                          fragment |-> u.fragment])
    ELSE LET resolved == ResolvedPath(IF Char(u.path, 1) = "/" THEN Split(u.path, "/")
                                      ELSE FilterInner(BaseParts(Split(b.path, "/")) \o Split(u.path, "/")))
         IN  urlunparse([scheme |-> u.scheme,
                         netloc |-> IF u.scheme \in UsesNetloc THEN b.netloc ELSE u.netloc,
                         path |-> IF resolved = "" THEN "/" ELSE resolved,
                         query |-> u.query, fragment |-> u.fragment])

\* urljoin, once base is parsed
JoinBase(b, url) == JoinParsed(b, UrlParseDefault(url, b.scheme), url)

\* urljoin(base, url)
urljoin(base, url) ==
    IF base = "" THEN url
    ELSE IF url = "" THEN base
    ELSE JoinBase(urlparse(base), url)

(***************************************************************************)
(* os.path (posixpath)                                                     *)
(***************************************************************************)

\* os.path.join(a, *p), folded over the components
RECURSIVE PathJoin(_, _)
PathJoin(a, p) ==
    IF Len(p) = 0 THEN a
    ELSE LET b == p[1]
             path == IF StartsWith(b, "/") THEN b
                     ELSE IF a = "" \/ Char(a, Len(a)) = "/" THEN a \o b
                     ELSE a \o "/" \o b
         IN  PathJoin(path, Tail(p))

\* s.rfind('/') + 1
RECURSIVE RFindSlash(_)
RFindSlash(s) ==
    IF Len(s) = 0 THEN 0
    ELSE IF Char(s, Len(s)) = "/" THEN Len(s)
    ELSE RFindSlash(StrTo(s, Len(s) - 1))

\* os.path.dirname(p)
dirname(p) ==
    LET head == StrTo(p, RFindSlash(p))
    IN  IF head # "" /\ RStrip(head, {"/"}) # "" THEN RStrip(head, {"/"}) ELSE head

\* the component loop of os.path.normpath
RECURSIVE NormComps(_, _, _)
NormComps(comps, new_comps, rooted) ==
    IF Len(comps) = 0 THEN new_comps
    ELSE LET comp == comps[1]
             n == Len(new_comps)
         IN  IF comp \in {"", "."} THEN NormComps(Tail(comps), new_comps, rooted)
             ELSE IF comp # ".." \/ (~rooted /\ n = 0) \/ (n > 0 /\ new_comps[n] = "..")
                  THEN NormComps(Tail(comps), Append(new_comps, comp), rooted)
             ELSE IF n > 0 THEN NormComps(Tail(comps), SubSeq(new_comps, 1, n - 1), rooted)
             ELSE NormComps(Tail(comps), new_comps, rooted)

\* os.path.normpath(path)
normpath(path) ==
    IF path = "" THEN "."
    ELSE LET slashes == IF ~StartsWith(path, "/") THEN ""
                        ELSE IF StartsWith(path, "//") /\ ~StartsWith(path, "///") THEN "//"
                        ELSE "/"
             joined == slashes \o Join(NormComps(Split(path, "/"), <<>>, slashes # ""), "/")
         IN  IF joined = "" THEN "." ELSE joined

\* os.getcwd() of the process
Cwd == "/cwd"

\* os.path.abspath(path)
abspath(path) == normpath(IF StartsWith(path, "/") THEN path ELSE PathJoin(Cwd, <<path>>))

\* len(os.path.commonprefix([a, b])) for two component lists
RECURSIVE CommonLen(_, _)
CommonLen(a, b) ==
    IF Len(a) = 0 \/ Len(b) = 0 \/ a[1] # b[1] THEN 0 ELSE 1 + CommonLen(Tail(a), Tail(b))

\* os.path.relpath(path, start)
relpath(path, start) ==
    LET start_list == FilterEmpty(Split(abspath(start), "/"))
        path_list == FilterEmpty(Split(abspath(path), "/"))
        i == CommonLen(start_list, path_list)
        rel_list == [k \in 1..(Len(start_list) - i) |-> ".."] \o SubSeq(path_list, i + 1, Len(path_list))
    IN  IF Len(rel_list) = 0 THEN "." ELSE PathJoin(rel_list[1], Tail(rel_list))

(***************************************************************************)
(* State                                                                   *)
(***************************************************************************)

VARIABLES
    scope,          \* the -s argument of every run ("" when not given)
    down,           \* the URLs of the site whose fetch fails
    pc,             \* where the run is: "loop", "fetch", "extract", "save",
                    \* "persist", "done", "interrupted", "faulted"; "persist2",
                    \* "persist3" inside save_bfs_state, "killed"; "single",
                    \* "single_save", "single_done" in single mode
    run,            \* the number of the current run of the program
    visited,        \* scrape_crawl's visited set
    to_visit,       \* scrape_crawl's to_visit set
    url_to_local,   \* scrape_crawl's url_to_local dict
    url,            \* the URL popped in the current iteration
    soup,           \* the hrefs of the page fetched in the current iteration
    disk,           \* the three frontier artifacts under output_dir
    files,          \* the Markdown files under output_dir: path -> the hrefs of
                    \* the page as handed to the Markdown renderer
    hist            \* what has happened so far (observation only)

vars == <<scope, down, pc, run, visited, to_visit, url_to_local, url, soup, disk, files, hist>>

(***************************************************************************)
(* Utility functions of md_scrape.py                                       *)
(***************************************************************************)

\* the character class of the regular expression in sanitize_filename
IllegalChars == {"\\", "*", "?", ":", "\"", "<", ">", "|"}

\* sanitize_filename(name)
RECURSIVE sanitize_filename(_)
sanitize_filename(name) ==
    IF Len(name) = 0 THEN ""
    ELSE (IF Char(name, 1) \in IllegalChars THEN "_" ELSE Char(name, 1))
         \o sanitize_filename(StrFrom(name, 1))

\* (parsed.netloc + parsed.path).rstrip("/")
CleanOf(parsed) == RStrip(parsed.netloc \o parsed.path, {"/"})

\* root_clean: root_dir without its scheme, if it has one, and trailing '/'
RootClean(rd) ==
    IF StrContains("://", rd) THEN CleanOf(urlparse(rd)) ELSE RStrip(rd, {"/"})

\* RelOf without the "index" of an empty remainder (a variant C13 must tell apart)
RelOfNoIndex(url_clean, root_clean) ==
    Strip(IF StartsWith(url_clean, root_clean)
          THEN StrFrom(url_clean, Len(root_clean))
          ELSE url_clean, {"/"})

\* rel: url_clean without the root prefix, stripped of '/', "index" when empty
RelOf(url_clean, root_clean) ==
    LET rel == Strip(IF StartsWith(url_clean, root_clean)
                     THEN StrFrom(url_clean, Len(root_clean))
                     ELSE url_clean, {"/"})
    IN  IF rel = "" THEN "index" ELSE rel

\* the sanitized parts joined under output_dir, the last one with ".md"
PathOfParts(parts, od) ==
    PathJoin(od, [k \in 1..Len(parts) |->
                    IF k = Len(parts) THEN sanitize_filename(parts[k]) \o ".md"
                    ELSE sanitize_filename(parts[k])])

\* url_to_filename stepping aside when the file already exists under
\* output_dir (a variant C12 must tell apart)
url_to_filename_fresh(u, rd, od) ==
    LET p == PathOfParts(Split(RelOf(CleanOf(urlparse(u)), RootClean(rd)), "/"), od)
    IN  IF p \in DOMAIN files THEN StrTo(p, Len(p) - 3) \o "_1.md" ELSE p

\* url_to_filename(url, root_dir, output_dir)
url_to_filename(u, rd, od) ==
    PathOfParts(Split(RelOf(CleanOf(urlparse(u)), RootClean(rd)), "/"), od)

(***************************************************************************)
(* The command line of the crawl and the site it runs against              *)
(***************************************************************************)

\* -u: the seed URL
start_url == "https://e.com/start"

\* -o: the output directory
output_dir == "/out"

\* --root-dir, left out on the command line: main() takes the seed's netloc
root_dir == urlparse(start_url).netloc

\* the values of -s the model runs with; "" is the option left out (None)
Scopes == {"", "sc"}

\* the pages of the site: what page.content() holds after page.goto(url),
\* as the sequence of the href attributes of its <a> tags; a URL the site
\* does not know serves a page without links, and a URL with a fragment
\* serves the page of the URL without it
Hrefs(u) ==
    CASE u = "https://e.com/start" -> <<"/o/a", "/sc/b", "#top", "https://x.org/z">>
      [] u = "https://e.com/o/a"   -> <<"/sc/d", "">>
      [] u = "https://e.com/sc/b"  -> <<"/o/a", "c", "/start", "/new">>
      [] u = "https://e.com/sc/c"  -> <<"https://e.com/sc/b">>
      [] u = "https://e.com/sc/d"  -> <<"/sc/d#s1">>
      [] u = "https://e.com/sc/d#s1" -> <<"/sc/d#s1">>
      [] OTHER -> <<>>

\* the sets of URLs whose page.goto() raises, one of which a site has
DownSets == {{}, {"https://e.com/sc/c"}}

\* how many times the program is run against the same output directory
MaxRuns == 2

(***************************************************************************)
(* FrontierStore: save_bfs_state / load_bfs_state                          *)
(***************************************************************************)

VisitedFile == "visited_urls.txt"
ToVisitFile == "to_visit_urls.txt"
MappingFile == "url_to_local.json"

\* an output directory holding no artifact
EmptyDisk == [names |-> {}, visited |-> {}, to_visit |-> {}, mapping |-> <<>>]

\* save_bfs_state(visited, to_visit, url_to_local, output_dir): the artifacts
\* after the call; a URL is written as the line url + "\n"
save_bfs_state(v, t, m) ==
    [names   |-> {VisitedFile, ToVisitFile, MappingFile},
     visited  |-> {u \o "\n" : u \in v},
     to_visit |-> {u \o "\n" : u \in t},
     mapping  |-> m]

\* load_bfs_state(output_dir): each line is stripped; a missing artifact
\* leaves its collection empty
load_bfs_state(d) ==
    [visited      |-> IF VisitedFile \in d.names
                      THEN {Strip(line, Whitespace) : line \in d.visited} ELSE {},
     to_visit     |-> IF ToVisitFile \in d.names
                      THEN {Strip(line, Whitespace) : line \in d.to_visit} ELSE {},
     url_to_local |-> IF MappingFile \in d.names THEN d.mapping ELSE <<>>]

(***************************************************************************)
(* LinkRewriter: rewrite_local_links                                       *)
(***************************************************************************)

\* RewriteHref pointing a link without entry at the file its target would
\* get (a variant C22 must tell apart)
RewriteHrefGuess(href, current_url, m) ==
    IF href = "" \/ StartsWith(href, "#") THEN href
    ELSE LET absolute == urljoin(current_url, href)
         IN  relpath(IF absolute \in DOMAIN m THEN m[absolute]
                     ELSE url_to_filename(absolute, root_dir, output_dir),
                     dirname(m[current_url]))

\* the body of the loop over the <a> tags: the href after the pass
RewriteHref(href, current_url, m) ==
    IF href = "" \/ StartsWith(href, "#") THEN href
    ELSE LET absolute == urljoin(current_url, href)
         IN  IF absolute \notin DOMAIN m THEN href
             ELSE relpath(m[absolute], dirname(m[current_url]))

\* rewrite_local_links(soup, current_url, url_to_local, root_dir, output_dir)
rewrite_local_links(sp, current_url, m) ==
    IF current_url \notin DOMAIN m THEN sp
    ELSE [i \in DOMAIN sp |-> RewriteHref(sp[i], current_url, m)]

(***************************************************************************)
(* CrawlEngine: scrape_crawl                                               *)
(***************************************************************************)

\* the hostname scope of the crawl
scope_domain == urlparse(start_url).netloc

\* is_in_scope of the link loop
is_in_scope(absolute, sc) ==
    sc = "" \/ StrContains(sc, absolute) \/ absolute = start_url

\* AddLink without the hostname test (a variant C4 must tell apart)
AddLinkAnyHost(absolute, v, t, m, sc) ==
    [to_visit |-> IF absolute \notin v THEN t \cup {absolute} ELSE t,
     url_to_local |-> IF is_in_scope(absolute, sc) /\ absolute \notin DOMAIN m
                      THEN (absolute :> url_to_filename(absolute, root_dir, output_dir)) @@ m
                      ELSE m]

\* AddLink without lines 261-267: no path is assigned ahead of the visit (a
\* variant C21 must tell apart)
AddLinkNoPath(absolute, v, t, m, sc) ==
    IF urlparse(absolute).netloc # scope_domain THEN [to_visit |-> t, url_to_local |-> m]
    ELSE [to_visit |-> IF absolute \notin v THEN t \cup {absolute} ELSE t,
          url_to_local |-> m]

\* AddLink without the test of line 258: a link to a visited URL is made
\* pending again (a variant C26 must tell apart)
AddLinkRevisit(absolute, v, t, m, sc) ==
    IF urlparse(absolute).netloc # scope_domain THEN [to_visit |-> t, url_to_local |-> m]
    ELSE [to_visit |-> t \cup {absolute},
          url_to_local |-> IF is_in_scope(absolute, sc) /\ absolute \notin DOMAIN m
                           THEN (absolute :> url_to_filename(absolute, root_dir, output_dir)) @@ m
                           ELSE m]

\* lines 251-267: what one resolved link does to to_visit and url_to_local
AddLink(absolute, v, t, m, sc) ==
    IF urlparse(absolute).netloc # scope_domain THEN [to_visit |-> t, url_to_local |-> m]
    ELSE [to_visit |-> IF absolute \notin v THEN t \cup {absolute} ELSE t,
          url_to_local |-> IF is_in_scope(absolute, sc) /\ absolute \notin DOMAIN m
                           THEN (absolute :> url_to_filename(absolute, root_dir, output_dir)) @@ m
                           ELSE m]

\* the link loop of one page: the frontier after the hrefs have been handled
RECURSIVE ExtractLinks(_, _, _, _, _)
ExtractLinks(hrefs, current_url, v, fr, sc) ==
    IF Len(hrefs) = 0 THEN fr
    ELSE IF hrefs[1] = "" \/ StartsWith(hrefs[1], "#")
         THEN ExtractLinks(Tail(hrefs), current_url, v, fr, sc)
    ELSE ExtractLinks(Tail(hrefs), current_url, v,
                      AddLink(urljoin(current_url, hrefs[1]), v, fr.to_visit, fr.url_to_local, sc), sc)

\* should_save without the exception for the seed (a variant C1 must tell apart)
should_save_strict(u, sc) == sc = "" \/ StrContains(sc, u)

\* should_save, through the program's four successive assignments
should_save(u, sc) ==
    LET s1 == IF sc # "" /\ ~StrContains(sc, u) THEN FALSE ELSE TRUE
        s2 == IF u = start_url THEN TRUE ELSE s1
    IN  IF sc # "" /\ ~StrContains(sc, u) /\ u # start_url THEN FALSE ELSE s2

\* StartFrontier without the mapping artifact: url_to_local starts over with
\* the seed alone (a variant C11 must tell apart)
StartFrontierNoMapping(d) ==
    LET l == load_bfs_state(d)
    IN  IF l.visited = {} /\ l.to_visit = {}
        THEN [visited |-> {}, to_visit |-> {start_url},
              url_to_local |-> (start_url :> url_to_filename(start_url, root_dir, output_dir))]
        ELSE [l EXCEPT !.url_to_local = (start_url :> url_to_filename(start_url, root_dir, output_dir))]

\* StartFrontier putting the seed back in to_visit on a resume (a variant
\* C24 must tell apart)
StartFrontierReseed(d) ==
    LET l == load_bfs_state(d)
    IN  IF l.visited = {} /\ l.to_visit = {}
        THEN [visited |-> {}, to_visit |-> {start_url},
              url_to_local |-> (start_url :> url_to_filename(start_url, root_dir, output_dir))]
        ELSE [l EXCEPT !.to_visit = @ \cup {start_url}]

\* the frontier a run starts with: loaded, or fresh when nothing is loaded
StartFrontier(d) ==
    LET l == load_bfs_state(d)
    IN  IF l.visited = {} /\ l.to_visit = {}
        THEN [visited |-> {}, to_visit |-> {start_url},
              url_to_local |-> (start_url :> url_to_filename(start_url, root_dir, output_dir))]
        ELSE l

NoHist ==
    [fetched   |-> {},      \* URLs page.goto() was called with
     refetched |-> {},      \* URLs page.goto() was called with more than once
     processed |-> {},      \* URLs fetched and handled up to the persist that ends the iteration
     written   |-> {},      \* URLs whose Markdown file was written
     cut       |-> {},      \* URLs whose iteration an interrupt or fault ended early
     rewrites  |-> {},      \* each href of a written page: before and after the pass, and
                            \* whether its resolved URL had a url_to_local entry
     persists  |-> 0,       \* save_bfs_state calls since the last pop
     stops     |-> <<>>,    \* how each ended run stopped, and where it was
     calls     |-> {},      \* url_to_filename calls made beside the crawl: the arguments,
                            \* the path returned, and where the crawl was at the call
     last      |-> "init"]  \* the step taken last

Init ==
    /\ scope \in Scopes
    /\ down \in DownSets
    /\ disk = EmptyDisk
    /\ files = <<>>
    /\ pc = "loop"
    /\ run = 1
    /\ visited = StartFrontier(disk).visited
    /\ to_visit = StartFrontier(disk).to_visit
    /\ url_to_local = StartFrontier(disk).url_to_local
    /\ url = ""
    /\ soup = <<>>
    /\ hist = NoHist

\* Pop without line 224: the popped URL is not marked visited (a variant C18
\* must tell apart)
PopNoMark ==
    /\ pc = "loop"
    /\ \E u \in to_visit :
        /\ to_visit' = to_visit \ {u}
        /\ url' = u
        /\ IF u \in visited
           THEN /\ UNCHANGED <<visited, url_to_local, pc>>
                /\ hist' = [hist EXCEPT !.last = "skip"]
           ELSE /\ UNCHANGED visited
                /\ url_to_local' = IF u \in DOMAIN url_to_local THEN url_to_local
                                   ELSE (u :> url_to_filename(u, root_dir, output_dir)) @@ url_to_local
                /\ pc' = "fetch"
                /\ hist' = [hist EXCEPT !.persists = 0, !.last = "pop"]
    /\ UNCHANGED <<scope, down, run, soup, disk, files>>

\* lines 219-228: pop a URL; an already visited one is dropped
Pop ==
    /\ pc = "loop"
    /\ \E u \in to_visit :
        /\ to_visit' = to_visit \ {u}
        /\ url' = u
        /\ IF u \in visited
           THEN /\ UNCHANGED <<visited, url_to_local, pc>>
                /\ hist' = [hist EXCEPT !.last = "skip"]
           ELSE /\ visited' = visited \cup {u}
                /\ url_to_local' = IF u \in DOMAIN url_to_local THEN url_to_local
                                   ELSE (u :> url_to_filename(u, root_dir, output_dir)) @@ url_to_local
                /\ pc' = "fetch"
                /\ hist' = [hist EXCEPT !.persists = 0, !.last = "pop"]
    /\ UNCHANGED <<scope, down, run, soup, disk, files>>

\* lines 230-233 and 239: the page loads and is parsed
FetchOk ==
    /\ pc = "fetch"
    /\ url \notin down
    /\ soup' = Hrefs(url)
    /\ pc' = "extract"
    /\ hist' = [hist EXCEPT !.fetched = @ \cup {url},
                            !.refetched = IF url \in hist.fetched THEN @ \cup {url} ELSE @, !.last = "fetch"]
    /\ UNCHANGED <<scope, down, run, visited, to_visit, url_to_local, url, disk, files>>

\* FetchFail with the exception left to the outer handler, which ends the run
\* (a variant C8 must tell apart)
FetchFailFatal ==
    /\ pc = "fetch"
    /\ url \in down
    /\ disk' = save_bfs_state(visited, to_visit, url_to_local)
    /\ pc' = "faulted"
    /\ hist' = [hist EXCEPT !.fetched = @ \cup {url},
                            !.refetched = IF url \in hist.fetched THEN @ \cup {url} ELSE @, !.persists = @ + 1, !.last = "fetchfail"]
    /\ UNCHANGED <<scope, down, run, visited, to_visit, url_to_local, url, soup, files>>

\* FetchFail putting the URL back for another try (a variant C23 must tell
\* apart)
FetchFailRetry ==
    /\ pc = "fetch"
    /\ url \in down
    /\ visited' = visited \ {url}
    /\ to_visit' = to_visit \cup {url}
    /\ disk' = save_bfs_state(visited', to_visit', url_to_local)
    /\ pc' = "loop"
    /\ hist' = [hist EXCEPT !.fetched = @ \cup {url}, !.persists = @ + 1, !.last = "fetchfail"]
    /\ UNCHANGED <<scope, down, run, url_to_local, url, soup, files>>

\* lines 234-237: the load raises; persist and go on with the next URL
FetchFail ==
    /\ pc = "fetch"
    /\ url \in down
    /\ disk' = save_bfs_state(visited, to_visit, url_to_local)
    /\ pc' = "loop"
    /\ hist' = [hist EXCEPT !.fetched = @ \cup {url},
                            !.refetched = IF url \in hist.fetched THEN @ \cup {url} ELSE @, !.persists = @ + 1, !.last = "fetchfail"]
    /\ UNCHANGED <<scope, down, run, visited, to_visit, url_to_local, url, soup, files>>

\* lines 242-267: the link loop
Extract ==
    /\ pc = "extract"
    /\ LET r == ExtractLinks(soup, url, visited,
                              [to_visit |-> to_visit, url_to_local |-> url_to_local], scope)
       IN  /\ to_visit' = r.to_visit
           /\ url_to_local' = r.url_to_local
    /\ pc' = "save"
    /\ hist' = [hist EXCEPT !.last = "extract"]
    /\ UNCHANGED <<scope, down, run, visited, url, soup, disk, files>>

\* SavePage without lines 329-331: the page is converted and no file is
\* written (a variant C27 must tell apart)
SavePageNoFile ==
    /\ pc = "save"
    /\ IF should_save(url, scope)
       THEN /\ url_to_local' = IF url \in DOMAIN url_to_local THEN url_to_local
                                ELSE (url :> url_to_filename(url, root_dir, output_dir)) @@ url_to_local
            /\ soup' = rewrite_local_links(soup, url, url_to_local')
            /\ hist' = [hist EXCEPT !.last = "write"]
       ELSE /\ UNCHANGED <<url_to_local, soup>>
            /\ hist' = [hist EXCEPT !.last = "nosave"]
    /\ pc' = "persist"
    /\ UNCHANGED <<scope, down, run, visited, to_visit, url, disk, files>>

\* lines 269-331: decide, and if the page is to be saved rewrite and write it
SavePage ==
    /\ pc = "save"
    /\ IF should_save(url, scope)
       THEN LET m == IF url \in DOMAIN url_to_local THEN url_to_local
                     ELSE (url :> url_to_filename(url, root_dir, output_dir)) @@ url_to_local
                md == rewrite_local_links(soup, url, m)
                local_path == m[url]
            IN  /\ url_to_local' = m
                /\ soup' = md
                /\ files' = (local_path :> md) @@ files
                /\ hist' = [hist EXCEPT
                              !.written = @ \cup {url},
                              !.rewrites = @ \cup
                                  {[page |-> url, path |-> local_path, href |-> soup[i],
                                    known |-> urljoin(url, soup[i]) \in DOMAIN m,
                                    final |-> md[i]] : i \in DOMAIN soup},
                              !.last = "write"]
       ELSE /\ UNCHANGED <<url_to_local, soup, files>>
            /\ hist' = [hist EXCEPT !.last = "nosave"]
    /\ pc' = "persist"
    /\ UNCHANGED <<scope, down, run, visited, to_visit, url, disk>>

\* Persist only after a page that was saved (a variant C10 must tell apart)
PersistWhenSaved ==
    /\ pc = "persist"
    /\ disk' = IF should_save(url, scope) THEN save_bfs_state(visited, to_visit, url_to_local) ELSE disk
    /\ pc' = "loop"
    /\ hist' = [hist EXCEPT !.processed = @ \cup {url},
                            !.persists = IF should_save(url, scope) THEN @ + 1 ELSE @,
                            !.last = "persist"]
    /\ UNCHANGED <<scope, down, run, visited, to_visit, url_to_local, url, soup, files>>

\* line 333: the persist that ends the iteration
Persist ==
    /\ pc = "persist"
    /\ disk' = save_bfs_state(visited, to_visit, url_to_local)
    /\ pc' = "loop"
    /\ hist' = [hist EXCEPT !.processed = @ \cup {url}, !.persists = @ + 1, !.last = "persist"]
    /\ UNCHANGED <<scope, down, run, visited, to_visit, url_to_local, url, soup, files>>

\* Exit of a crawl with a page limit: the loop also ends once three URLs are
\* visited, whichever they are (a variant C28 must tell apart)
ExitAtLimit ==
    /\ pc = "loop"
    /\ to_visit = {} \/ Cardinality(visited) >= 3
    /\ pc' = "done"
    /\ hist' = [hist EXCEPT !.stops = Append(@, [by |-> "exit", at |-> pc]), !.last = "exit"]
    /\ UNCHANGED <<scope, down, run, visited, to_visit, url_to_local, url, soup, disk, files>>

\* line 219 with to_visit empty: the loop ends
Exit ==
    /\ pc = "loop"
    /\ to_visit = {}
    /\ pc' = "done"
    /\ hist' = [hist EXCEPT !.stops = Append(@, [by |-> "exit", at |-> pc]), !.last = "exit"]
    /\ UNCHANGED <<scope, down, run, visited, to_visit, url_to_local, url, soup, disk, files>>

\* the URL whose iteration is under way at pc, if any. (A signal or fault
\* lands between two stages of an iteration: after the pop, after the load,
\* after the link loop, after the write.)
InFlight == IF pc \in {"fetch", "extract", "save", "persist"} THEN {url} ELSE {}

\* Interrupt with a handler that stops without saving (a variant C9 must tell apart)
InterruptNoSave ==
    /\ pc \in {"loop", "fetch", "extract", "save", "persist"}
    /\ pc' = "interrupted"
    /\ hist' = [hist EXCEPT !.cut = @ \cup InFlight,
                            !.stops = Append(@, [by |-> "interrupt", at |-> pc]),
                            !.last = "interrupt"]
    /\ UNCHANGED <<scope, down, run, visited, to_visit, url_to_local, url, soup, disk, files>>

\* lines 335-337: KeyboardInterrupt anywhere in the loop
Interrupt ==
    /\ pc \in {"loop", "fetch", "extract", "save", "persist"}
    /\ disk' = save_bfs_state(visited, to_visit, url_to_local)
    /\ pc' = "interrupted"
    /\ hist' = [hist EXCEPT !.cut = @ \cup InFlight, !.persists = @ + 1,
                            !.stops = Append(@, [by |-> "interrupt", at |-> pc]),
                            !.last = "interrupt"]
    /\ UNCHANGED <<scope, down, run, visited, to_visit, url_to_local, url, soup, files>>

\* lines 338-340: an exception in the link loop, or in makedirs/open/write
Fault ==
    /\ \/ pc = "extract"
       \/ pc = "save" /\ should_save(url, scope)
    /\ disk' = save_bfs_state(visited, to_visit, url_to_local)
    /\ pc' = "faulted"
    /\ hist' = [hist EXCEPT !.cut = @ \cup InFlight, !.persists = @ + 1,
                            !.stops = Append(@, [by |-> "fault", at |-> pc]),
                            !.last = "fault"]
    /\ UNCHANGED <<scope, down, run, visited, to_visit, url_to_local, url, soup, files>>

\* the program is run again with the same arguments: lines 205-212
Rerun ==
    /\ pc \in {"done", "interrupted", "faulted", "killed"}
    /\ run < MaxRuns
    /\ run' = run + 1
    /\ visited' = StartFrontier(disk).visited
    /\ to_visit' = StartFrontier(disk).to_visit
    /\ url_to_local' = StartFrontier(disk).url_to_local
    /\ url' = ""
    /\ soup' = <<>>
    /\ pc' = "loop"
    /\ hist' = [hist EXCEPT !.persists = 0, !.last = "rerun"]
    /\ UNCHANGED <<scope, down, disk, files>>

Next ==
    \/ Pop
    \/ FetchOk
    \/ FetchFail
    \/ Extract
    \/ SavePage
    \/ Persist
    \/ Exit
    \/ Interrupt
    \/ Fault
    \/ Rerun

Spec == Init /\ [][Next]_vars

\* one run of the program against an empty output directory
NextRun ==
    \/ Pop
    \/ FetchOk
    \/ FetchFail
    \/ Extract
    \/ SavePage
    \/ Persist
    \/ Exit
    \/ Interrupt
    \/ Fault

SpecRun == Init /\ [][NextRun]_vars

(***************************************************************************)
(* A crawl that is left to run: no signal, no fault                        *)
(***************************************************************************)

\* the URLs of the site's pages
SiteUrls ==
    {"https://e.com/start", "https://e.com/o/a", "https://e.com/sc/b", "https://e.com/sc/c",
     "https://e.com/sc/d", "https://e.com/sc/d#s1", "https://e.com/new"}

\* the sets of URLs whose fetch fails, for a crawl that is left to run: none,
\* the seed, a hub, leaves, all of them
LiveDownSets ==
    {{}, {"https://e.com/start"}, {"https://e.com/o/a"}, {"https://e.com/sc/c"},
     {"https://e.com/sc/b", "https://e.com/sc/d#s1"}, SiteUrls}

InitLive ==
    /\ scope \in Scopes
    /\ down \in LiveDownSets
    /\ disk = EmptyDisk
    /\ files = <<>>
    /\ pc = "loop"
    /\ run = 1
    /\ visited = StartFrontier(disk).visited
    /\ to_visit = StartFrontier(disk).to_visit
    /\ url_to_local = StartFrontier(disk).url_to_local
    /\ url = ""
    /\ soup = <<>>
    /\ hist = NoHist

NextLive ==
    \/ Pop
    \/ FetchOk
    \/ FetchFail
    \/ Extract
    \/ SavePage
    \/ Persist
    \/ Exit

\* where control can go from each position of the loop: every step of
\* NextLive is a step of Control, and only Pop dropping a visited URL leaves
\* pc as it is
Control ==
    \/ pc = "loop" /\ pc' \in {"loop", "fetch", "done"}
    \/ pc = "fetch" /\ pc' \in {"extract", "loop"}
    \/ pc = "extract" /\ pc' = "save"
    \/ pc = "save" /\ pc' = "persist"
    \/ pc = "persist" /\ pc' = "loop"

\* the program keeps executing: control does not stay for ever at a position
\* it can leave.  (to_visit is finite, so Pop cannot drop visited URLs for
\* ever: the behaviours are those of WF_vars(NextLive).)
SpecLive == InitLive /\ [][NextLive]_vars /\ WF_pc(Control)

(***************************************************************************)
(* A crawl whose process can be killed: save_bfs_state write by write      *)
(***************************************************************************)

\* lines 117-119 of the save_bfs_state call at line 333: visited_urls.txt
PersistVisited ==
    /\ pc = "persist"
    /\ disk' = [disk EXCEPT !.names = @ \cup {VisitedFile},
                            !.visited = save_bfs_state(visited, to_visit, url_to_local).visited]
    /\ pc' = "persist2"
    /\ hist' = [hist EXCEPT !.last = "persist1"]
    /\ UNCHANGED <<scope, down, run, visited, to_visit, url_to_local, url, soup, files>>

\* lines 121-123: to_visit_urls.txt
PersistToVisit ==
    /\ pc = "persist2"
    /\ disk' = [disk EXCEPT !.names = @ \cup {ToVisitFile},
                            !.to_visit = save_bfs_state(visited, to_visit, url_to_local).to_visit]
    /\ pc' = "persist3"
    /\ hist' = [hist EXCEPT !.last = "persist2"]
    /\ UNCHANGED <<scope, down, run, visited, to_visit, url_to_local, url, soup, files>>

\* lines 125-126: url_to_local.json; the call returns and the iteration ends
PersistMapping ==
    /\ pc = "persist3"
    /\ disk' = [disk EXCEPT !.names = @ \cup {MappingFile},
                            !.mapping = save_bfs_state(visited, to_visit, url_to_local).mapping]
    /\ pc' = "loop"
    /\ hist' = [hist EXCEPT !.processed = @ \cup {url}, !.persists = @ + 1, !.last = "persist"]
    /\ UNCHANGED <<scope, down, run, visited, to_visit, url_to_local, url, soup, files>>

\* the process is killed (SIGKILL, power loss): no handler runs, what is in
\* memory is gone, what is on disk stays
Kill ==
    /\ pc \in {"loop", "fetch", "extract", "save", "persist", "persist2", "persist3"}
    /\ pc' = "killed"
    /\ hist' = [hist EXCEPT !.cut = @ \cup InFlight,
                            !.stops = Append(@, [by |-> "kill", at |-> pc]),
                            !.last = "kill"]
    /\ UNCHANGED <<scope, down, run, visited, to_visit, url_to_local, url, soup, disk, files>>

\* the site the killed crawl runs against is up
InitCrash == Init /\ down = {}

NextCrash ==
    \/ Pop
    \/ FetchOk
    \/ Extract
    \/ SavePage
    \/ PersistVisited
    \/ PersistToVisit
    \/ PersistMapping
    \/ Exit
    \/ Kill
    \/ Rerun

\* runs of the crawl that end or are killed, each resuming from what the one
\* before left on disk
SpecCrash == InitCrash /\ [][NextCrash]_vars

(***************************************************************************)
(* Single mode: scrape_single                                              *)
(***************************************************************************)

\* the URLs the program is run with in single mode
SingleUrls == {"https://e.com/start", "https://e.com/sc/b", "https://e.com/sc/c"}

\* what the output directory holds when single mode starts: nothing, or the
\* artifacts a crawl has left there
SingleDisks ==
    {EmptyDisk,
     save_bfs_state({"https://e.com/start"}, {"https://e.com/sc/b", "https://e.com/o/a"},
                    ("https://e.com/start" :> "/out/start.md") @@
                    ("https://e.com/sc/b" :> "/out/sc/b.md")),
     save_bfs_state({"https://e.com/start", "https://e.com/sc/b"}, {},
                    ("https://e.com/start" :> "/out/start.md") @@
                    ("https://e.com/sc/b" :> "/out/sc/b.md") @@
                    ("https://e.com/sc/c" :> "/out/sc/c.md"))}

\* lines 158-167: main() has chosen scrape_single; its url_to_local holds the
\* one URL, and there is no visited and no to_visit
InitSingle ==
    /\ scope \in Scopes
    /\ down \in DownSets
    /\ disk \in SingleDisks
    /\ files = <<>>
    /\ pc = "single"
    /\ run = 1
    /\ visited = {}
    /\ to_visit = {}
    /\ url \in SingleUrls
    /\ url_to_local = (url :> url_to_filename(url, urlparse(url).netloc, output_dir))
    /\ soup = <<>>
    /\ hist = NoHist

\* lines 169-173: the page loads and is parsed
SingleFetchOk ==
    /\ pc = "single"
    /\ url \notin down
    /\ soup' = Hrefs(url)
    /\ pc' = "single_save"
    /\ hist' = [hist EXCEPT !.fetched = @ \cup {url},
                            !.refetched = IF url \in hist.fetched THEN @ \cup {url} ELSE @,
                            !.last = "fetch"]
    /\ UNCHANGED <<scope, down, run, visited, to_visit, url_to_local, url, disk, files>>

\* lines 169 and 187-188: the load raises; the error is printed
SingleFetchFail ==
    /\ pc = "single"
    /\ url \in down
    /\ pc' = "single_done"
    /\ hist' = [hist EXCEPT !.fetched = @ \cup {url},
                            !.refetched = IF url \in hist.fetched THEN @ \cup {url} ELSE @,
                            !.last = "fetchfail"]
    /\ UNCHANGED <<scope, down, run, visited, to_visit, url_to_local, url, soup, disk, files>>

\* SingleSave leaving the frontier artifacts of a crawl behind (a variant C14
\* must tell apart)
SingleSavePersisting ==
    /\ pc = "single_save"
    /\ soup' = rewrite_local_links(soup, url, url_to_local)
    /\ files' = (url_to_local[url] :> soup') @@ files
    /\ disk' = save_bfs_state({url}, {}, url_to_local)
    /\ pc' = "single_done"
    /\ hist' = [hist EXCEPT !.written = @ \cup {url}, !.last = "write"]
    /\ UNCHANGED <<scope, down, run, visited, to_visit, url_to_local, url>>

\* lines 178-185: rewrite the links, render and write the file
SingleSave ==
    /\ pc = "single_save"
    /\ soup' = rewrite_local_links(soup, url, url_to_local)
    /\ files' = (url_to_local[url] :> soup') @@ files
    /\ pc' = "single_done"
    /\ hist' = [hist EXCEPT !.written = @ \cup {url}, !.last = "write"]
    /\ UNCHANGED <<scope, down, run, visited, to_visit, url_to_local, url, disk>>

\* lines 182-184 and 187-188: makedirs, open or write raises; the error is
\* printed and no file is left
SingleSaveFail ==
    /\ pc = "single_save"
    /\ pc' = "single_done"
    /\ hist' = [hist EXCEPT !.last = "fault"]
    /\ UNCHANGED <<scope, down, run, visited, to_visit, url_to_local, url, soup, disk, files>>

\* KeyboardInterrupt in single mode: 'except Exception' does not catch it,
\* the browser is closed and the program ends
SingleInterrupt ==
    /\ pc \in {"single", "single_save"}
    /\ pc' = "interrupted"
    /\ hist' = [hist EXCEPT !.stops = Append(@, [by |-> "interrupt", at |-> pc]),
                            !.last = "interrupt"]
    /\ UNCHANGED <<scope, down, run, visited, to_visit, url_to_local, url, soup, disk, files>>

NextSingle ==
    \/ SingleFetchOk
    \/ SingleFetchFail
    \/ SingleSave
    \/ SingleSaveFail
    \/ SingleInterrupt

\* python md_scrape.py -m single -u url -o output_dir
SpecSingle == InitSingle /\ [][NextSingle]_vars

(***************************************************************************)
(* LinkRewriter: rewrite_local_links called for its own sake               *)
(***************************************************************************)

\* current_url of the pass
RewritePages == {"https://e.com/start", "https://e.com/sc/b"}

\* the href attributes a page of the pass is made of: empty, a fragment, a
\* path, a relative reference, another host
RewriteHrefs == {"", "#top", "/sc/b", "c", "/o/a", "https://x.org/z"}

\* how many <a> tags a page of the pass holds at most
MaxTags == 2

\* the pages of the pass
RewriteSoups == UNION {[1..n -> RewriteHrefs] : n \in 0..MaxTags}

\* url_to_local of the pass: empty, the seed alone, targets without the seed,
\* pages and targets
RewriteMaps ==
    {<<>>,
     ("https://e.com/start" :> "/out/start.md"),
     ("https://e.com/sc/c" :> "/out/sc/c.md") @@ ("https://e.com/o/a" :> "/out/o/a.md"),
     ("https://e.com/start" :> "/out/start.md") @@ ("https://e.com/sc/b" :> "/out/sc/b.md") @@
     ("https://e.com/sc/c" :> "/out/sc/c.md")}

\* a page, its URL and a mapping are at hand, with some frontier beside them
InitRewrite ==
    /\ scope = ""
    /\ down = {}
    /\ disk = EmptyDisk
    /\ files = <<>>
    /\ pc = "rewrite"
    /\ run = 1
    /\ url \in RewritePages
    /\ visited = {url}
    /\ to_visit = {"https://e.com/o/a"}
    /\ url_to_local \in RewriteMaps
    /\ soup \in RewriteSoups
    /\ hist = NoHist

\* rewrite_local_links(soup, url, url_to_local, root_dir, output_dir): the
\* pass changes the soup in place and returns nothing
RewritePass ==
    /\ pc = "rewrite"
    /\ soup' = rewrite_local_links(soup, url, url_to_local)
    /\ pc' = "rewritten"
    /\ hist' = [hist EXCEPT
                  !.rewrites = {[page |-> url,
                                 path |-> IF url \in DOMAIN url_to_local THEN url_to_local[url] ELSE "",
                                 href |-> soup[i],
                                 known |-> urljoin(url, soup[i]) \in DOMAIN url_to_local,
                                 final |-> soup'[i]] : i \in DOMAIN soup},
                  !.last = "rewrite"]
    /\ UNCHANGED <<scope, down, run, visited, to_visit, url_to_local, url, disk, files>>

NextRewrite == RewritePass

SpecRewrite == InitRewrite /\ [][NextRewrite]_vars

(***************************************************************************)
(* PathMapper: url_to_filename called for its own sake                     *)
(***************************************************************************)

\* the arguments url_to_filename is called with: URLs with a trailing '/',
\* a query and a fragment, no path, a host that only begins like the root,
\* an empty segment, characters that are illegal in file names, another host
MapperUrls ==
    {"https://e.com/start", "https://e.com/sc/b/", "https://e.com/sc/b?q=1#f",
     "https://e.com", "https://e.community/x", "https://e.com/a//b",
     "https://e.com/s:c/d*e", "https://x.org/z"}

\* root_dir: a host, a URL with scheme and trailing '/', a host with the
\* beginning of a segment
MapperRoots == {"e.com", "https://e.com/sc/", "e.com/s"}

\* output_dir: absolute, and relative with a trailing '/'
MapperOuts == {"/out", "out/"}

\* how many calls with the same arguments one behaviour logs
MaxCalls == 2

\* where the crawl is: nothing visited yet, under way, or ended
CrawlPhase == IF visited = {} THEN "before" ELSE IF pc = "done" THEN "after" ELSE "during"

\* url_to_filename(u, rd, od) is called, whatever the crawl is doing, and the
\* call is logged; the calls logged in one behaviour have the same arguments
MapCall ==
    /\ Cardinality(hist.calls) < MaxCalls
    /\ \E u \in MapperUrls, rd \in MapperRoots, od \in MapperOuts :
          /\ \A c \in hist.calls : c.url = u /\ c.root = rd /\ c.out = od
          /\ hist' = [hist EXCEPT !.calls = @ \cup
                        {[url |-> u, root |-> rd, out |-> od,
                          path |-> url_to_filename(u, rd, od),
                          at |-> CrawlPhase]}]
    /\ UNCHANGED <<scope, down, pc, run, visited, to_visit, url_to_local, url, soup, disk, files>>

\* the crawl the calls are made beside: with a scope, on a site that is up
InitMapper == Init /\ scope # "" /\ down = {}

\* an uninterrupted crawl, with calls of url_to_filename beside it
NextMapper ==
    \/ Pop
    \/ FetchOk
    \/ Extract
    \/ SavePage
    \/ Persist
    \/ Exit
    \/ MapCall

SpecMapper == InitMapper /\ [][NextMapper]_vars

(***************************************************************************)
(* FrontierStore: save_bfs_state then load_bfs_state, called for their own *)
(* sake                                                                    *)
(***************************************************************************)

\* URLs the crawl can hold: the seed, a page, and the URL that line 247 makes
\* of <a href="c "> on the page /sc/b
StoreUrls == {start_url, "https://e.com/sc/c", urljoin("https://e.com/sc/b", "c ")}

\* url_to_local dictionaries over StoreUrls
StoreMaps ==
    {<<>>,
     (start_url :> url_to_filename(start_url, root_dir, output_dir)),
     [u \in StoreUrls |-> url_to_filename(u, root_dir, output_dir)]}

InitStore ==
    /\ scope = ""
    /\ down = {}
    /\ disk = EmptyDisk
    /\ files = <<>>
    /\ pc = "store"
    /\ run = 1
    /\ visited \in SUBSET StoreUrls
    /\ to_visit \in SUBSET StoreUrls
    /\ url_to_local \in StoreMaps
    /\ url = ""
    /\ soup = <<>>
    /\ hist = NoHist

\* save_bfs_state(visited, to_visit, url_to_local, output_dir)
StoreSave ==
    /\ pc = "store"
    /\ disk' = save_bfs_state(visited, to_visit, url_to_local)
    /\ pc' = "stored"
    /\ hist' = [hist EXCEPT !.persists = @ + 1, !.last = "persist"]
    /\ UNCHANGED <<scope, down, run, visited, to_visit, url_to_local, url, soup, files>>

\* visited, to_visit, url_to_local = load_bfs_state(output_dir), right after
\* the save
StoreLoad ==
    /\ pc = "stored"
    /\ visited' = load_bfs_state(disk).visited
    /\ to_visit' = load_bfs_state(disk).to_visit
    /\ url_to_local' = load_bfs_state(disk).url_to_local
    /\ pc' = "loaded"
    /\ hist' = [hist EXCEPT !.last = "load"]
    /\ UNCHANGED <<scope, down, run, url, soup, disk, files>>

\* lines 206-210 on a directory without artifacts: load, then the fresh start
StoreFresh ==
    /\ pc = "store"
    /\ disk = EmptyDisk
    /\ visited' = StartFrontier(disk).visited
    /\ to_visit' = StartFrontier(disk).to_visit
    /\ url_to_local' = StartFrontier(disk).url_to_local
    /\ pc' = "fresh"
    /\ hist' = [hist EXCEPT !.last = "load"]
    /\ UNCHANGED <<scope, down, run, url, soup, disk, files>>

NextStore ==
    \/ StoreSave
    \/ StoreLoad
    \/ StoreFresh

SpecStore == InitStore /\ [][NextStore]_vars

(***************************************************************************)
(* What the properties are stated in                                       *)
(***************************************************************************)

\* the frontier in memory, in the shape load_bfs_state returns
Frontier == [visited |-> visited, to_visit |-> to_visit, url_to_local |-> url_to_local]

\* the artifacts on disk hold the frontier in memory
DurableIsCurrent == load_bfs_state(disk) = Frontier

\* save-eligibility as the specification states it
Eligible(u) == scope = "" \/ StrContains(scope, u) \/ u = start_url

\* urlparse(u).hostname: the netloc without user information and port
Hostname(u) ==
    LET n == urlparse(u).netloc
        h == IF StrFind(n, "@") = 0 THEN n ELSE StrFrom(n, StrFind(n, "@"))
    IN  IF StrFind(h, ":") = 0 THEN h ELSE StrTo(h, StrFind(h, ":") - 1)

\* the same-host links of the page at u: none when the page cannot be fetched
SameHostLinks(u) ==
    IF u \in down THEN {}
    ELSE {l \in {urljoin(u, Hrefs(u)[i]) :
                    i \in {j \in DOMAIN Hrefs(u) : Hrefs(u)[j] # "" /\ ~StartsWith(Hrefs(u)[j], "#")}} :
            Hostname(l) = Hostname(start_url)}

\* the URLs reachable from S over the same-host links of its pages; with
\* eligibleOnly, over the links of the save-eligible pages alone
RECURSIVE ReachFrom(_, _)
ReachFrom(S, eligibleOnly) ==
    LET N == S \cup UNION {SameHostLinks(u) : u \in {w \in S : eligibleOnly => Eligible(w)}}
    IN  IF N = S THEN S ELSE ReachFrom(N, eligibleOnly)

\* the URLs reachable from the seed by following same-host links
Reachable == ReachFrom({start_url}, FALSE)

\* the URLs reachable from the seed through save-eligible pages alone
ReachableThroughEligible == ReachFrom({start_url}, TRUE)

\* the files of the pages that can be fetched, are reachable and save-eligible
ExpectedFiles ==
    {url_to_filename(u, root_dir, output_dir) : u \in {w \in Reachable \ down : Eligible(w)}}

\* an uninterrupted first run ends with every reachable URL visited and
\* every reachable save-eligible page that loads in its file
UninterruptedRunResult ==
    (pc = "done" /\ run = 1) => (visited = Reachable /\ DOMAIN files = ExpectedFiles)

\* what follows "://" in s, the whole of s when it has no scheme
WithoutScheme(s) ==
    IF StrFind(s, "://") = 0 THEN s ELSE StrFrom(s, StrFind(s, "://") + 2)

\* host and path of a URL: what follows the scheme, up to the first '?' or '#'
HostAndPath(u) ==
    LET rest == WithoutScheme(u)
        e == FindAny(rest, {"?", "#"})
    IN  IF e = 0 THEN rest ELSE StrTo(rest, e - 1)

\* U without the prefix R when it starts with R, trimmed of '/', "index" when
\* nothing remains
Remainder(U, R) ==
    LET rem == Strip(IF StartsWith(U, R) THEN StrFrom(U, Len(R)) ELSE U, {"/"})
    IN  IF rem = "" THEN "index" ELSE rem

\* the segments under od, each sanitized, the last one with ".md"
UnderRoot(segs, od) ==
    PathJoin(od, [k \in 1..Len(segs) |->
                    sanitize_filename(segs[k]) \o (IF k = Len(segs) THEN ".md" ELSE "")])

\* the path the specification gives a URL under a root scope and an output root
ExpectedPath(u, rd, od) ==
    UnderRoot(Split(Remainder(RStrip(HostAndPath(u), {"/"}),
                              RStrip(WithoutScheme(rd), {"/"})), "/"), od)

(***************************************************************************)
(* Properties                                                              *)
(***************************************************************************)

\* C1 (save-eligibility): every URL that was dequeued, fetched and handled to
\* the end of its iteration has had its Markdown file written if and only if
\* no scope is set, or the scope occurs in the URL, or it is the seed; and no
\* file is ever written for a URL that is not save-eligible.
C1_SaveEligibility ==
    /\ \A u \in hist.processed : (u \in hist.written) <=> Eligible(u)
    /\ \A u \in hist.written : Eligible(u) /\ url_to_local[u] \in DOMAIN files

\* C1 witness: with a scope set, the seed (outside the scope) and a page in
\* scope have been written and a page out of scope has been handled without.
C1_Witness ==
    /\ scope # ""
    /\ ~StrContains(scope, start_url) /\ start_url \in hist.processed \cap hist.written
    /\ \E u \in hist.processed \cap hist.written : StrContains(scope, u)
    /\ \E u \in hist.processed \ hist.written : ~Eligible(u)

\* C2 (resumability), as claimed: a run interrupted after some pages and then
\* run again against the same output directory ends with the visited set and
\* the files of one uninterrupted run.
C2_Resumable ==
    (pc = "done" /\ run = 2 /\ hist.stops[1].by = "interrupt")
        => (visited = Reachable /\ DOMAIN files = ExpectedFiles)

\* C3 (frontier completeness), as claimed: a run without scope that ends with
\* to_visit empty has visited exactly the URLs reachable from the seed.
C3_FrontierComplete ==
    (pc = "done" /\ scope = "") => visited = Reachable

\* C4 (scope containment): every URL in to_visit has the seed's host.
C4_ScopeContainment ==
    \A u \in to_visit : Hostname(u) = Hostname(start_url)

\* C4 witness: the link loop has handled a page with a link to another host.
C4_Witness ==
    /\ hist.last = "extract"
    /\ \E i \in DOMAIN soup : soup[i] # "" /\ Hostname(urljoin(url, soup[i])) # Hostname(start_url)
    /\ to_visit # {}

\* C5 (tunnel-through), as claimed: with a scope set, a run that ends with
\* to_visit empty has visited every reachable URL, and every save-eligible URL
\* that is reachable only through pages that are not save-eligible has a file.
C5_TunnelThrough ==
    (pc = "done" /\ scope # "")
        => /\ Reachable \subseteq visited
           /\ \A u \in Reachable \ ReachableThroughEligible :
                Eligible(u) => url_to_filename(u, root_dir, output_dir) \in DOMAIN files

\* C6 (rewritten targets exist), as claimed: when a run ends with to_visit
\* empty, every href the rewrite pass replaced is a relative path that leads,
\* from the directory of the page's file, to a file the crawl has written.
C6_RewrittenTargetsExist ==
    pc = "done" =>
        \A r \in hist.rewrites :
            r.final # r.href =>
                /\ ~StartsWith(r.final, "/")
                /\ normpath(PathJoin(dirname(r.path), <<r.final>>)) \in DOMAIN files

\* C7 (unknown targets), as claimed: after the rewrite pass of a saved page,
\* every href the pass resolves to a URL without url_to_local entry is that
\* resolved absolute URL.
C7_UnknownTargetsAbsolute ==
    \A r \in hist.rewrites :
        (r.href # "" /\ ~StartsWith(r.href, "#") /\ ~r.known)
            => r.final = urljoin(r.page, r.href)

\* C8 (fetch failure is not fatal): right after a fetch has failed, the run is
\* back at the head of the loop, the artifacts on disk hold the frontier in
\* memory, the URL is in visited and no file has been written for it; and
\* while URLs are pending, the next step of the run pops one of them, unless
\* an interrupt arrives.
C8_FetchFailureNonFatal ==
    /\ [](hist.last = "fetchfail" =>
            /\ pc = "loop"
            /\ DurableIsCurrent
            /\ url \in visited
            /\ url \notin hist.written)
    /\ [][(hist.last = "fetchfail" /\ to_visit # {}) => hist'.last \in {"pop", "skip", "interrupt"}]_vars

\* C8 witness: a fetch has failed while URLs are still pending.
C8_Witness ==
    hist.last = "fetchfail" /\ url \in down /\ to_visit # {}

\* C9 (interruption): the step that handles a KeyboardInterrupt leaves on disk
\* the frontier that was in memory when the signal arrived and leaves memory as
\* it was; from then on the run pops no URL and fetches nothing.
C9_Interruption ==
    [][ /\ (pc # "interrupted" /\ pc' = "interrupted")
            => (load_bfs_state(disk') = Frontier /\ Frontier' = Frontier)
        /\ pc = "interrupted"
            => (hist'.fetched = hist.fetched /\ (run' = run => Frontier' = Frontier)) ]_vars

\* C9 witness: a run was interrupted while a page was in flight and other
\* URLs were pending, and then the program was run again.
C9_Witness ==
    /\ run = 2
    /\ hist.stops[1].by = "interrupt" /\ hist.stops[1].at = "extract"
    /\ Cardinality(to_visit) > 1

\* C10 (persist after every page): an iteration does not persist before its
\* end, and when it has ended - the page saved, skipped as out of scope, or
\* failed to load - exactly one persist has been made since the pop, and the
\* artifacts on disk hold the frontier in memory.
C10_PersistEveryPage ==
    /\ pc \in {"fetch", "extract", "save", "persist"} => hist.persists = 0
    /\ (pc = "loop" /\ hist.last \in {"persist", "fetchfail"})
           => (hist.persists = 1 /\ DurableIsCurrent)

\* C10 witness: an iteration that skipped an out-of-scope page has just ended,
\* after others that saved a page and that failed to load one.
C10_Witness ==
    /\ pc = "loop" /\ hist.last = "persist"
    /\ ~Eligible(url) /\ url \in hist.processed
    /\ hist.written # {}
    /\ visited \cap down # {}

\* C11 (LocalPath stability): no step - of a run, or the start of a run that
\* resumes from the artifacts an earlier run left - removes an entry of
\* url_to_local or changes the path it holds.
C11_LocalPathStable ==
    [][\A u \in DOMAIN url_to_local :
          u \in DOMAIN url_to_local' /\ url_to_local'[u] = url_to_local[u]]_vars

\* C11 witness: a resumed run has popped a URL whose entry an earlier run
\* made and persisted, with other entries beside it.
C11_Witness ==
    /\ run = 2 /\ hist.last = "pop"
    /\ url \in DOMAIN load_bfs_state(disk).url_to_local
    /\ Cardinality(DOMAIN url_to_local) > 2

C13_MapperResult ==
    \A c \in hist.calls : c.path = ExpectedPath(c.url, c.root, c.out)

\* C13 witness: a call whose URL begins with the root scope, which ends inside
\* a segment, and whose remaining two segments both hold an illegal character.
C13_Witness ==
    \E c \in hist.calls :
        /\ c.url = "https://e.com/s:c/d*e" /\ c.root = "e.com/s" /\ c.out = "out/"
        /\ c.path = "out/_c/d_e.md"

\* C14 (single mode): scrape_single fetches nothing but the given URL, and
\* that once when it has ended; it writes no file but the one at the URL's
\* LocalPath, holding the page with no link rewritten through a mapping other
\* than the URL's own entry; it has no visited, no to_visit and no mapping
\* beyond that entry, whatever artifacts the output directory holds, and no
\* step changes those artifacts.
C14_SingleMode ==
    /\ [](/\ hist.fetched \subseteq {url} /\ hist.refetched = {}
          /\ (pc = "single_done" => hist.fetched = {url})
          /\ DOMAIN files \subseteq {url_to_filename(url, urlparse(url).netloc, output_dir)}
          /\ \A p \in DOMAIN files : files[p] = rewrite_local_links(Hrefs(url), url, (url :> p))
          /\ visited = {} /\ to_visit = {}
          /\ DOMAIN url_to_local = {url})
    /\ [][disk' = disk]_vars

\* C14 witness: single mode has written the file of a page with links, one of
\* them to a URL that the mapping artifact in the output directory knows.
C14_Witness ==
    /\ pc = "single_done" /\ hist.written = {url}
    /\ MappingFile \in disk.names
    /\ \E i \in DOMAIN Hrefs(url) :
          /\ Hrefs(url)[i] # ""
          /\ urljoin(url, Hrefs(url)[i]) \in DOMAIN disk.mapping \ {url}

\* C15 (cooperative cancellation), as claimed: when a run has been stopped by
\* a KeyboardInterrupt, the visited artifact lists no URL whose iteration the
\* signal ended before its file write and persist were done.
C15_CooperativeCancellation ==
    pc = "interrupted" => load_bfs_state(disk).visited \cap hist.cut = {}

\* the URLs an uninterrupted run would have visited and saved that are not in
\* visited or have no file
Lost ==
    {u \in Reachable \ down :
        /\ Eligible(u)
        /\ u \notin visited \/ url_to_filename(u, root_dir, output_dir) \notin DOMAIN files}

\* C16 (at-most-one-page loss), as claimed: when a run was killed at any
\* point and the run that resumed from its artifacts has ended with to_visit
\* empty, at most one URL that an uninterrupted run visits and saves is
\* missing from visited or lacks its file.
C16_AtMostOnePageLost ==
    (pc = "done" /\ run = 2 /\ hist.stops[1].by = "kill") => Cardinality(Lost) <= 1

\* C17 (fault resumability), as claimed: when a run was ended by an exception
\* in the link loop or in the file write, its handler has left the frontier
\* on disk, and once the next run has ended with to_visit empty the files
\* under the output directory are those of a run without fault.
C17_FaultResumable ==
    /\ pc = "faulted" => DurableIsCurrent
    /\ (pc = "done" /\ run = 2 /\ hist.stops[1].by = "fault") => DOMAIN files = ExpectedFiles

\* C18 (visited is terminal): no step - the start of a resumed run included -
\* takes a URL out of visited; an iteration goes on to fetch only a URL that
\* was not in visited when it was popped; and over all runs against the
\* output directory page.goto is called at most once with any URL.
C18_VisitedTerminal ==
    /\ [](hist.refetched = {})
    /\ [][ /\ visited \subseteq visited'
           /\ (pc = "loop" /\ pc' = "fetch") => (url' \notin visited /\ url' \notin hist.fetched) ]_vars

\* C18 witness: a resumed run has handled a page with a link to a URL that an
\* earlier run fetched and persisted as visited, and has not made it pending.
C18_Witness ==
    /\ run = 2 /\ hist.last = "extract"
    /\ \E i \in DOMAIN soup :
          /\ soup[i] # "" /\ ~StartsWith(soup[i], "#")
          /\ urljoin(url, soup[i]) \in (visited \cap hist.fetched) \ {url}
          /\ urljoin(url, soup[i]) \notin to_visit
          /\ url \notin load_bfs_state(disk).visited

\* C19 (url_to_local holds only save candidates), as claimed: with a scope
\* set, every URL that has an entry in url_to_local contains the scope or is
\* the seed.
C19_OnlySaveCandidates ==
    scope # "" => \A u \in DOMAIN url_to_local : Eligible(u)

\* C20 (one file per URL), as claimed: any two distinct URLs whose pages were
\* saved have distinct paths in url_to_local.
C20_OneFilePerUrl ==
    \A u1, u2 \in hist.written \cap DOMAIN url_to_local :
        u1 # u2 => url_to_local[u1] # url_to_local[u2]

\* C21 (forward references): when a page has just been saved, each of its
\* links that resolves to a URL of the seed's host that is save-eligible had
\* a url_to_local entry when the page was rewritten, and its href is the
\* relative path from the directory of the page's file to the target's
\* LocalPath, whether the target was fetched by then or not.
C21_ForwardReferences ==
    hist.last = "write" =>
    \A r \in {x \in hist.rewrites : x.page = url} :
        (/\ r.href # "" /\ ~StartsWith(r.href, "#")
         /\ Hostname(urljoin(r.page, r.href)) = Hostname(start_url)
         /\ Eligible(urljoin(r.page, r.href)))
        => /\ r.known
           /\ r.final = relpath(url_to_filename(urljoin(r.page, r.href), root_dir, output_dir),
                                dirname(r.path))

\* C21 witness: a page has just been written with a link rewritten to the
\* file of a save-eligible page that has not been visited yet.
C21_Witness ==
    /\ hist.last = "write" /\ scope # ""
    /\ \E r \in hist.rewrites :
          /\ r.page = url /\ r.known /\ r.final # r.href
          /\ urljoin(url, r.href) \notin visited
          /\ urljoin(url, r.href) \in to_visit

\* C22 (rewrite frame): a pass of rewrite_local_links changes the href of a
\* link only when the page has a url_to_local entry, the href is neither
\* empty nor a fragment, and the URL it resolves to has an entry; every other
\* href is left as it was; and the pass leaves url_to_local, visited and
\* to_visit as they were.
C22_RewriteFrame ==
    /\ [](\A r \in hist.rewrites :
            r.final # r.href =>
                /\ r.page \in DOMAIN url_to_local
                /\ r.href # "" /\ ~StartsWith(r.href, "#")
                /\ r.known)
    /\ [][pc = "rewrite" => UNCHANGED <<url_to_local, visited, to_visit>>]_vars

\* C22 witness: a pass over a page with two links has rewritten one and left
\* the other, which resolves to a URL without entry, as it was.
C22_Witness ==
    /\ pc = "rewritten"
    /\ \E r1, r2 \in hist.rewrites :
          /\ r1.known /\ r1.final # r1.href
          /\ r2.href # "" /\ ~StartsWith(r2.href, "#") /\ ~r2.known /\ r2.final = r2.href

\* C23 (liveness): a crawl that no signal and no fault ends reaches DONE, and
\* every URL that is in to_visit at some time is popped later, in whatever
\* order URLs are popped and whichever fetches fail.
C23_Liveness ==
    /\ <>(pc = "done")
    /\ \A u \in SiteUrls : (u \in to_visit) ~> (u \notin to_visit)

\* C23 witness: a crawl has ended with to_visit empty after a fetch failed and
\* others did not.
C23_Witness ==
    /\ pc = "done" /\ to_visit = {}
    /\ visited \cap down # {}
    /\ Cardinality(visited \ down) > 2

\* the run under way was started after a run that ended at DONE
ResumedAfterDone == run > 1 /\ Len(hist.stops) >= run - 1 /\ hist.stops[run - 1].by = "exit"

\* C24: a run started on an output directory whose persisted visited or
\* to_visit is not empty begins with exactly what load_bfs_state returns (the
\* seed is not added, no path is derived); a run started after a run that
\* ended at DONE fetches nothing and writes no page file.
C24_ResumeFromPersisted ==
    /\ [][(run' = run + 1 /\ (load_bfs_state(disk).visited # {} \/ load_bfs_state(disk).to_visit # {}))
            => /\ visited' = load_bfs_state(disk).visited
               /\ to_visit' = load_bfs_state(disk).to_visit
               /\ url_to_local' = load_bfs_state(disk).url_to_local]_vars
    /\ [][ResumedAfterDone => pc' # "fetch" /\ files' = files /\ hist'.fetched = hist.fetched]_vars

\* C24 witness: a run has just started from a persisted frontier that has
\* pending URLs; the seed is visited and is not pending.
C24_Witness ==
    /\ hist.last = "rerun"
    /\ to_visit # {}
    /\ start_url \in visited /\ start_url \notin to_visit
    /\ Cardinality(DOMAIN url_to_local) > 1

\* C24 witness, second case: a run started after DONE has ended in its turn.
C24_WitnessAfterDone == ResumedAfterDone /\ pc = "done" /\ Len(hist.stops) = run

\* C25: load_bfs_state right after save_bfs_state(visited, to_visit,
\* url_to_local) returns exactly those three collections, whatever they are;
\* on a directory without artifacts it returns three empty collections, and
\* the run then starts with to_visit = {seed}, visited empty and url_to_local
\* holding the seed's path alone.
C25_StoreRoundTrip ==
    /\ [][(pc = "stored" /\ pc' = "loaded")
            => visited' = visited /\ to_visit' = to_visit /\ url_to_local' = url_to_local]_vars
    /\ [](pc = "fresh" =>
            /\ load_bfs_state(disk) = [visited |-> {}, to_visit |-> {}, url_to_local |-> <<>>]
            /\ visited = {} /\ to_visit = {start_url}
            /\ url_to_local = (start_url :> url_to_filename(start_url, root_dir, output_dir)))

\* C25, the part that holds: the round trip of collections whose URLs neither
\* start nor end with white space, and the fresh start.  (Not a claim's
\* formula: it locates the divergence.)
StoreRoundTripOfStrippedUrls ==
    /\ [][(pc = "stored" /\ pc' = "loaded"
             /\ \A u \in visited \cup to_visit : Strip(u, Whitespace) = u)
            => visited' = visited /\ to_visit' = to_visit /\ url_to_local' = url_to_local]_vars
    /\ [](pc = "fresh" =>
            /\ visited = {} /\ to_visit = {start_url}
            /\ url_to_local = (start_url :> url_to_filename(start_url, root_dir, output_dir)))

\* C26: in a run started on an empty output directory, visited and to_visit
\* have no URL in common at the top of the loop, the persisted visited and
\* to_visit artifacts have no line in common, and no popped URL is dropped as
\* already visited.
C26_FreshRunDisjoint ==
    /\ pc = "loop" => visited \cap to_visit = {}
    /\ disk.visited \cap disk.to_visit = {}
    /\ hist.last # "skip"

\* C26 witness: back at the top of the loop after the page /sc/b, whose links
\* to the visited seed and /o/a were met, with URLs still pending.
C26_Witness ==
    /\ pc = "loop"
    /\ "https://e.com/sc/b" \in hist.processed
    /\ {start_url, "https://e.com/o/a"} \subseteq visited
    /\ to_visit # {}
    /\ disk.visited # {}

\* the URLs the artifacts record as visited whose page loaded and is
\* save-eligible
PersistedSavedPages(d) == {u \in load_bfs_state(d).visited : u \notin down /\ Eligible(u)}

\* C27: in a run that no signal and no fault cuts short, the file of a
\* save-eligible page that loaded is on disk before the persist that first
\* records its URL as visited, so in every persisted state every such URL of
\* the visited artifact has its file.
C27_FileBeforePersist ==
    /\ [][\A u \in PersistedSavedPages(disk') \ PersistedSavedPages(disk) :
              u \in DOMAIN url_to_local /\ url_to_local[u] \in DOMAIN files]_vars
    /\ [](\A u \in PersistedSavedPages(disk) :
              /\ u \in DOMAIN load_bfs_state(disk).url_to_local
              /\ load_bfs_state(disk).url_to_local[u] \in DOMAIN files)

\* C27 witness: an iteration has just ended with its persist; the artifacts
\* record saved pages, and a visited URL that is not save-eligible and has no
\* file.
C27_Witness ==
    /\ hist.last = "persist"
    /\ Cardinality(PersistedSavedPages(disk)) >= 2
    /\ \E u \in load_bfs_state(disk).visited :
          ~Eligible(u) /\ url_to_filename(u, root_dir, output_dir) \notin DOMAIN files

\* C28: when no fetch fails, the visited set and the set of written file
\* paths at DONE are determined by the site, the seed and the scope, whatever
\* the order in which URLs were popped: visited is every URL reachable from
\* the seed and the files are those of the reachable save-eligible pages.
C28_PopOrderIndependent ==
    (pc = "done" /\ down = {}) =>
        /\ visited = ReachFrom({start_url}, FALSE)
        /\ DOMAIN files = {url_to_filename(u, root_dir, output_dir) :
                              u \in {w \in ReachFrom({start_url}, FALSE) : Eligible(w)}}

\* C28 witness: a run without fetch failure is at DONE, and the URL popped
\* last was /sc/c.
C28_Witness ==
    /\ pc = "done" /\ down = {} /\ scope # ""
    /\ url = "https://e.com/sc/c"

\* C28 witness, another order: with the same scope the URL popped last was
\* /new.
C28_WitnessOtherOrder ==
    /\ pc = "done" /\ down = {} /\ scope # ""
    /\ url = "https://e.com/new"

====
